---- MODULE Spec2Model ----
(***************************************************************************)
(* State-machine model of the query-planning and answer-synthesis          *)
(* pipeline: ImprovedQueryPlanner.create_plan, Neo4jQueryAgent.run,        *)
(* map_summarize_sections and reduce_and_synthesize_answer.                *)
(*                                                                         *)
(* The graph store holds a small fixed dataset.  Every LLM response and    *)
(* every graph-driver failure is a nondeterministic input of the step      *)
(* that consumes it.                                                       *)
(***************************************************************************)
EXTENDS Integers, Sequences, FiniteSets, TLC

VARIABLES
    pc,             \* position of Neo4jQueryAgent.run / create_plan
    all_companies,  \* create_plan: live company list fetched from the graph
    llmCompanies,   \* _llm_extract_company: the list the LLM named
    found,          \* create_plan: found_companies
    idx,            \* create_plan: position of the company loop (1-based)
    fetched,        \* company_data rows of the company grounded last
    entities,       \* entities of the company grounded last
    sections,       \* _get_focused_sections result of the company grounded last
    available,      \* create_plan: all_available_sections
    plan,           \* value returned by create_plan
    cause,          \* which return statement of create_plan produced no plan
    lastParse,      \* the planner's latest LLM call and how its output parsed
    calls,          \* number of LLM calls issued, per kind
    reads,          \* number of graph-store calls issued by the planner
    runQueries,     \* graph-store queries issued by run itself, in order
    results,        \* run: rows of the retrieval query
    docIdx,         \* map_summarize_sections: document loop position
    chunkIdx,       \* map_summarize_sections: chunk loop position
    chunkOut,       \* map_summarize_sections: all_chunk_results
    batch,          \* map_summarize_sections: batch_summaries
    reduceCall,     \* outcome of the reduce LLM call: "none", "ok", "err"
    answer,         \* string returned by run
    evaluation_str, \* evaluate_and_suggest_improvements: the LLM's raw response
    verdict,        \* evaluate_and_suggest_improvements: the value returned
    search_plan,    \* CypherQueryBuilder.build_query: its plan argument
    index_hits,     \* section ids the vector index holds, nearest to the concept first
    built,          \* values returned by the calls of build_query, in order
    encodes,        \* number of model.encode calls
    searches,       \* number of vector_db.search calls
    text,           \* _split_text_into_chunks: its text argument, as tokens
    chunk_size,     \* _split_text_into_chunks: its chunk_size argument
    split_chunks,   \* _split_text_into_chunks: the list returned
    provider,       \* UnifiedLLMClient: the configured provider
    response_format,\* the response_format its caller passes to create
    messages,       \* the message list its caller owns and passes to create
    requests        \* the requests sent to the provider's API, in order

vars == <<pc, all_companies, llmCompanies, found, idx, fetched, entities, sections, available,
          plan, cause, lastParse, calls, reads, runQueries, results, docIdx,
          chunkIdx, chunkOut, batch, reduceCall, answer, evaluation_str,
          verdict, search_plan, index_hits, built, encodes, searches, text,
          chunk_size, split_chunks, provider, response_format, messages,
          requests>>

\* the state of the gateway to the LLM providers
GatewayVars == <<provider, response_format, messages, requests>>

\* the state of the functions that run does not call
AuxVars == <<evaluation_str, verdict, search_plan, index_hits, built, encodes,
             searches, text, chunk_size, split_chunks, GatewayVars>>

---------------------------------------------------------------------------
(* Bounds of the model *)

\* longest company list the LLM returns
MaxCompanies == 2
\* longest years / quarters / document_types list the LLM returns
MaxList == 1
\* most section ids the LLM puts in sections_to_retrieve
MaxPick == 2
\* longest extraction_checklist the LLM returns
MaxChecklist == 2

SeqsUpTo(S, n) == UNION {[1..k -> S] : k \in 0..n}

Range(s) == {s[i] : i \in 1..Len(s)}

---------------------------------------------------------------------------
(* The graph store: Company -> Year -> Quarter -> Document -> Section.     *)
(* One record per Section with the path that reaches it.  The sequence is  *)
(* in the order of the planner's ORDER BY y.value DESC, q.label DESC.      *)

(* A section's text is kept as its character count; has_text = FALSE is a   *)
(* Section node whose text property is null.                               *)

GraphSections ==
    << [id |-> 1, company |-> "BAC", year |-> 2025, quarter |-> "Q1",
        doc_type |-> "10-Q", name |-> "MD&A", has_text |-> TRUE, len |-> 1200],
       [id |-> 2, company |-> "JPM", year |-> 2025, quarter |-> "Q1",
        doc_type |-> "10-Q", name |-> "MD&A", has_text |-> FALSE, len |-> 0],
       [id |-> 3, company |-> "BAC", year |-> 2024, quarter |-> "Q4",
        doc_type |-> "10-K", name |-> "Risk Factors", has_text |-> TRUE,
        len |-> 200000] >>

GraphCompanies == <<"BAC", "JPM">>

\* Neo4jExecutor.run_cypher_query: the rows, or [] when the driver raises
RunCypherQuery(ok, rows) == IF ok THEN rows ELSE <<>>

\* Neo4jExecutor.get_unique_values_for_property('Company', 'name')
GetUniqueCompanies(ok) == RunCypherQuery(ok, GraphCompanies)

---------------------------------------------------------------------------
(* LLM responses.  A raw response is text of one of three shapes:          *)
(*   "json"     json.loads succeeds and yields `value`;                    *)
(*   "embedded" json.loads fails, the text holds one JSON object that      *)
(*              re.search(r'\{.*\}') finds and that parses to `value`;      *)
(*   "garbage"  neither succeeds (or the provider call itself raised).     *)
(* A parsed value is a JSON object (type "dict"), a non-empty value that   *)
(* is no object (type "nonobject"), or an empty one (type "empty").        *)

NoneVal == "null"

ParseError == [type |-> "error"]

Shapes == {"json", "embedded", "garbage"}

Raw(values) ==
    {[shape |-> "json", value |-> v] : v \in values}
        \cup {[shape |-> "embedded", value |-> v] :
                 v \in {w \in values : w.type = "dict"}}
        \cup {[shape |-> "garbage", value |-> ParseError]}

\* json.loads(raw_response) with no recovery
ParseStrict(r) == IF r.shape = "json" THEN r.value ELSE ParseError

\* json.loads(raw_response), then the regex extraction of an embedded object
ParseWithFallback(r) ==
    IF r.shape \in {"json", "embedded"} THEN r.value ELSE ParseError

NonObject == [type |-> "nonobject"]

EmptyValue == [type |-> "empty"]

---------------------------------------------------------------------------
(* Step 1: _llm_classify_and_build_metadata_query                          *)

\* Cypher texts the classification LLM may put into cypher_query: the two
\* read queries of the prompt's examples, and a statement that deletes
\* nodes; json.loads returns whatever text the LLM wrote
MetaQueries == {"MATCH_COMPANIES", "MATCH_DOC_TYPES", "MATCH_DETACH_DELETE"}

ClsValues ==
    {[type |-> "dict", query_type |-> qt, cypher_query |-> q] :
        qt \in {"metadata", "content", NoneVal},
        q \in MetaQueries \cup {NoneVal, ""}}
        \cup {NonObject, EmptyValue}

PyNone == [type |-> "none"]

\* Python truthiness of a parsed value
Truthy(v) == v.type \in {"dict", "nonobject"}

\* the parsed response, or None when anything raised
LlmClassify(r) ==
    LET v == ParseStrict(r) IN IF v.type = "error" THEN PyNone ELSE v

---------------------------------------------------------------------------
(* Step 2: _llm_extract_company                                            *)

CompanyUniverse == {"BAC", "JPM", "XYZ"}

CompanyValues ==
    {[type |-> "dict", companies |-> cs] :
        cs \in SeqsUpTo(CompanyUniverse, MaxCompanies)} \cup {NonObject}

\* [c for c in found_companies if c in all_companies]
MutValidCompanies(found_companies, all) == found_companies

ValidCompanies(found_companies, all) ==
    SelectSeq(found_companies, LAMBDA c : c \in Range(all))

\* data.get("companies", []) of the parsed response
FoundCompanies(r) ==
    LET data == ParseWithFallback(r)
    IN  IF data.type = "dict" THEN data.companies ELSE <<>>

\* a response that is no object raises inside the try and yields []
MutLlmExtractCompany(r, all) ==
    LET data == ParseWithFallback(r)
    IN  IF data.type = "dict" THEN ValidCompanies(data.companies, all)
        ELSE all

LlmExtractCompany(r, all) ==
    LET data == ParseWithFallback(r)
    IN  IF data.type = "dict" THEN ValidCompanies(data.companies, all)
        ELSE <<>>

---------------------------------------------------------------------------
(* Step 3: _get_company_focused_data and _llm_extract_context_entities     *)

\* rows (year, quarter, doc_type) of the company's documents
CompanyRows(company) ==
    LET mine == SelectSeq(GraphSections, LAMBDA s : s.company = company)
    IN  [i \in 1..Len(mine) |->
            [year |-> mine[i].year, quarter |-> mine[i].quarter,
             doc_type |-> mine[i].doc_type]]

GetCompanyFocusedData(company, ok) == RunCypherQuery(ok, CompanyRows(company))

AvailableYears(company_data) == {row.year : row \in Range(company_data)}

AvailableQuarters(company_data) == {row.quarter : row \in Range(company_data)}

AvailableDocTypes(company_data) == {row.doc_type : row \in Range(company_data)}

YearUniverse == {2025, 2030}

QuarterUniverse == {"q4", "Q2", "Q5"}

DocTypeUniverse == {"10-Q", "8-K"}

\* a JSON field is a list of items or something that is neither list nor str
Field(S) ==
    {[form |-> "list", items |-> xs] : xs \in SeqsUpTo(S, MaxList)}
        \cup {[form |-> "other", items |-> <<>>]}

CtxValues ==
    {[type |-> "dict", years |-> ys, quarters |-> qs, document_types |-> ds] :
        ys \in Field(YearUniverse), qs \in Field(QuarterUniverse),
        ds \in Field(DocTypeUniverse)} \cup {NonObject}

\* _sanitize_llm_list_output
SanitizeLlmListOutput(value) ==
    IF value.form = "list" THEN value.items ELSE <<>>

\* re.match(r'^Q[1-4]$', q, re.IGNORECASE)
QuarterMatches(q) == q \in {"Q1", "Q2", "Q3", "Q4", "q1", "q2", "q3", "q4"}

\* q.upper()
Upper(q) ==
    CASE q = "q1" -> "Q1" [] q = "q2" -> "Q2" [] q = "q3" -> "Q3"
      [] q = "q4" -> "Q4" [] OTHER -> q

EmptyEntities == [years |-> <<>>, quarters |-> <<>>, document_types |-> <<>>]

\* validated_data, or the empty default when anything raised
LlmExtractContextEntities(r, company_data) ==
    LET data == ParseWithFallback(r)
    IN  IF data.type # "dict" THEN EmptyEntities
        ELSE [years |->
                 SelectSeq(SanitizeLlmListOutput(data.years),
                           LAMBDA y : y \in AvailableYears(company_data)),
              quarters |->
                 LET kept == SelectSeq(SanitizeLlmListOutput(data.quarters),
                                       QuarterMatches)
                 IN  [i \in 1..Len(kept) |-> Upper(kept[i])],
              document_types |->
                 SelectSeq(SanitizeLlmListOutput(data.document_types),
                           LAMBDA dt : dt \in AvailableDocTypes(company_data))]

\* _extract_entities_from_query: entities = {"companies": [company]} updated
\* with the context entities
ExtractEntitiesFromQuery(company, ctx) ==
    [companies |-> <<company>>, years |-> ctx.years,
     quarters |-> ctx.quarters, document_types |-> ctx.document_types]

---------------------------------------------------------------------------
(* Step 4: _get_focused_sections                                           *)

\* entities.get(key): the list, or None (falsy) when the key is absent
EntityGet(ents, key) == IF key \in DOMAIN ents THEN ents[key] ELSE <<>>

SectionMatches(s, company, ents) ==
    /\ s.company = company
    /\ EntityGet(ents, "years") # <<>> =>
            s.year \in Range(EntityGet(ents, "years"))
    /\ EntityGet(ents, "quarters") # <<>> =>
            s.quarter \in Range(EntityGet(ents, "quarters"))
    /\ EntityGet(ents, "doc_types") # <<>> =>
            s.doc_type \in Range(EntityGet(ents, "doc_types"))

\* where_clauses of _get_focused_sections: one part per key of entities that
\* it reads and finds non-empty
WhereClauses(ents) ==
    {k \in {"years", "quarters", "doc_types"} : EntityGet(ents, k) # <<>>}

SectionRow(s) ==
    [section_id |-> s.id, section_name |-> s.name, doc_type |-> s.doc_type,
     year |-> s.year, quarter |-> s.quarter]

GetFocusedSections(company, ents, ok) ==
    LET hit == SelectSeq(GraphSections,
                         LAMBDA s : SectionMatches(s, company, ents))
    IN  RunCypherQuery(ok, [i \in 1..Len(hit) |-> SectionRow(hit[i])])

\* section['company'] = company
TagCompany(rows, company) ==
    [i \in 1..Len(rows) |->
        [section_id |-> rows[i].section_id,
         section_name |-> rows[i].section_name,
         doc_type |-> rows[i].doc_type, year |-> rows[i].year,
         quarter |-> rows[i].quarter, company |-> company]]

---------------------------------------------------------------------------
(* Step 5: _llm_generate_extraction_guide                                  *)

IdUniverse == {1, 2, 3, 9}

RequiredKeys == {"analysis_goal", "sections_to_retrieve", "extraction_checklist"}

\* a checklist item as the LLM may return it: an object with some of the keys
\* task and type, or a value that is no object
ItemShapes ==
    { [isdict |-> TRUE, keys |-> {"task", "type"}, task |-> "net income",
       type |-> "table_extraction"],
      [isdict |-> TRUE, keys |-> {"task", "type"}, task |-> "key drivers",
       type |-> "narrative_summary"],
      [isdict |-> TRUE, keys |-> {"task", "type"}, task |-> "trend chart",
       type |-> "chart"],
      [isdict |-> TRUE, keys |-> {"task"}, task |-> "untyped",
       type |-> NoneVal],
      [isdict |-> FALSE, keys |-> {}, task |-> NoneVal, type |-> NoneVal] }

Picks == {ids \in SUBSET IdUniverse : Cardinality(ids) <= MaxPick}

\* objects with all three keys and any content, objects that lack some key,
\* objects whose extraction_checklist is no list, and values that are no object
GuideValues ==
    {[type |-> "dict", keys |-> RequiredKeys, sections_to_retrieve |-> ids,
      checklist_is_list |-> TRUE, extraction_checklist |-> cl] :
        ids \in Picks, cl \in SeqsUpTo(ItemShapes, MaxChecklist)}
    \cup {[type |-> "dict", keys |-> ks, sections_to_retrieve |-> {1},
           checklist_is_list |-> TRUE, extraction_checklist |-> <<>>] :
             ks \in SUBSET RequiredKeys}
    \cup {[type |-> "dict", keys |-> RequiredKeys,
           sections_to_retrieve |-> {1}, checklist_is_list |-> FALSE,
           extraction_checklist |-> <<>>]}
    \cup {NonObject}

NoPlan ==
    [plan_type |-> "none", analysis_goal |-> NoneVal, cypher_query |-> NoneVal,
     sections_to_retrieve |-> {}, extraction_checklist |-> <<>>]

FailureCauses == {"NoEntityFound", "NoContentAvailable", "PlanGenerationError"}

\* what create_plan returns at each of its three failure exits: None
PlanFailure(c) == NoPlan

\* the dict create_plan returns for a metadata query
MetadataPlan(metadata_plan) ==
    [plan_type |-> "metadata", analysis_goal |-> "human_readable_answer",
     cypher_query |-> metadata_plan.cypher_query,
     sections_to_retrieve |-> {}, extraction_checklist |-> <<>>]

\* isinstance(item, dict) and 'task' in item and 'type' in item
ItemWellFormed(item) ==
    item.isdict /\ "task" \in item.keys /\ "type" \in item.keys

\* the parsed guide with plan_type added, or None
LlmGenerateExtractionGuide(r) ==
    LET guide == ParseStrict(r)
    IN  IF guide.type # "dict" THEN NoPlan
        ELSE IF ~(RequiredKeys \subseteq guide.keys) THEN NoPlan
        ELSE IF guide.checklist_is_list
                /\ \A i \in 1..Len(guide.extraction_checklist) :
                       ItemWellFormed(guide.extraction_checklist[i])
             THEN [plan_type |-> "content_extraction",
                   analysis_goal |-> "goal", cypher_query |-> NoneVal,
                   sections_to_retrieve |-> guide.sections_to_retrieve,
                   extraction_checklist |-> guide.extraction_checklist]
        ELSE NoPlan

---------------------------------------------------------------------------
(* Answers of Neo4jQueryAgent.run                                          *)

\* a string run returns; disclaimer tells whether the text before the Sources
\* list ends with the fixed disclaimer sentence
Message(kind) ==
    [kind |-> kind, rows |-> <<>>, sources |-> <<>>, disclaimer |-> FALSE]

NoAnswer == Message("none")

CouldNotPlan == Message("could_not_plan")

MetadataNoQuery == Message("metadata_without_query")

NoSectionsSpecified == Message("no_sections_specified")

NoExtractableText == Message("no_extractable_text")

UnexpectedError == Message("unexpected_error")

\* json.dumps(results, indent=2)
MutJsonDumps(rows) ==
    [kind |-> "json_rows", rows |-> [i \in 1..Len(rows) |-> rows[Len(rows) + 1 - i]],
     sources |-> <<>>, disclaimer |-> FALSE]

JsonDumps(rows) ==
    [kind |-> "json_rows", rows |-> rows, sources |-> <<>>, disclaimer |-> FALSE]

CallKinds ==
    {"classify", "company", "context", "guide", "table", "narrative", "reduce"}

---------------------------------------------------------------------------
(* create_plan                                                             *)

PlannerLocals == <<all_companies, llmCompanies, found, idx, fetched, entities, sections,
                   available>>

SynthVars == <<results, docIdx, chunkIdx, chunkOut, batch, reduceCall>>

NoEntities == [companies |-> <<>>, years |-> <<>>, quarters |-> <<>>,
               document_types |-> <<>>]

\* what a planning step got from its LLM call: "object" for a JSON object
\* (an empty one included), "unparseable" when no JSON could be read,
\* "nonobject" for JSON that is no object
Parsed(step, value) ==
    [step |-> step,
     got |-> IF value.type \in {"dict", "empty"} THEN "object"
             ELSE IF value.type = "error" THEN "unparseable"
             ELSE value.type]

\* no verdict returned yet
NoVerdict == [type |-> "none"]

\* no response received yet
NoResponse == [shape |-> "none", value |-> [type |-> "none"]]

\* no plan handed to build_query
NoSearchPlan == [search_type |-> "none"]

CriticIdle == evaluation_str = NoResponse /\ verdict = NoVerdict

BuilderIdle ==
    /\ search_plan = NoSearchPlan
    /\ index_hits = <<>>
    /\ built = <<>>
    /\ encodes = 0
    /\ searches = 0

SplitIdle == text = <<>> /\ chunk_size = 0 /\ split_chunks = <<>>

\* no call of the gateway is modelled
GatewayIdle ==
    /\ provider = "none"
    /\ response_format = "null"
    /\ messages = <<>>
    /\ requests = <<>>

Init ==
    /\ CriticIdle
    /\ BuilderIdle
    /\ SplitIdle
    /\ GatewayIdle
    /\ pc = "Classify"
    /\ all_companies = <<>>
    /\ llmCompanies = <<>>
    /\ found = <<>>
    /\ idx = 0
    /\ fetched = <<>>
    /\ entities = NoEntities
    /\ sections = <<>>
    /\ available = <<>>
    /\ plan = NoPlan
    /\ cause = "none"
    /\ lastParse = Parsed("none", PyNone)
    /\ calls = [k \in CallKinds |-> 0]
    /\ reads = 0
    /\ runQueries = <<>>
    /\ results = <<>>
    /\ docIdx = 0
    /\ chunkIdx = 0
    /\ chunkOut = <<>>
    /\ batch = <<>>
    /\ reduceCall = "none"
    /\ answer = NoAnswer


\* create_plan, step 1: the metadata check.  A parsed value that is neither
\* empty nor an object has no .get: the AttributeError leaves create_plan and
\* is caught by run.
Classify ==
    /\ pc = "Classify"
    /\ UNCHANGED AuxVars
    /\ \E r \in Raw(ClsValues) :
          LET metadata_plan == LlmClassify(r)
          IN  /\ calls' = [calls EXCEPT !["classify"] = @ + 1]
              /\ lastParse' = Parsed("classify", ParseStrict(r))
              /\ IF ~Truthy(metadata_plan)
                 THEN pc' = "Company" /\ UNCHANGED <<plan, answer>>
                 ELSE IF metadata_plan.type = "nonobject"
                 THEN pc' = "Failed" /\ answer' = UnexpectedError
                      /\ UNCHANGED plan
                 ELSE IF metadata_plan.query_type = "metadata"
                 THEN pc' = "Dispatch" /\ plan' = MetadataPlan(metadata_plan)
                      /\ UNCHANGED answer
                 ELSE pc' = "Company" /\ UNCHANGED <<plan, answer>>
    /\ UNCHANGED <<PlannerLocals, cause, reads, runQueries, SynthVars>>

\* create_plan, step 2: the live company list and company grounding
GroundCompanies ==
    /\ pc = "Company"
    /\ UNCHANGED AuxVars
    /\ \E ok \in BOOLEAN, r \in Raw(CompanyValues) :
          /\ all_companies' = GetUniqueCompanies(ok)
          /\ llmCompanies' = FoundCompanies(r)
          /\ found' = LlmExtractCompany(r, all_companies')
          /\ lastParse' = Parsed("company", ParseWithFallback(r))
    /\ calls' = [calls EXCEPT !["company"] = @ + 1]
    /\ reads' = reads + 1
    /\ IF found' = <<>>
       THEN pc' = "Dispatch" /\ plan' = PlanFailure("NoEntityFound")
            /\ cause' = "NoEntityFound" /\ idx' = idx
       ELSE pc' = "Context" /\ idx' = 1 /\ UNCHANGED <<plan, cause>>
    /\ UNCHANGED <<fetched, entities, sections, available, runQueries,
                   SynthVars, answer>>

\* what one call of _llm_extract_context_entities can come to: the validated
\* entities together with what the parse of the response got
ContextOutcomes(company_data) ==
    {[ctx |-> LlmExtractContextEntities(r, company_data),
      parse |-> Parsed("context", ParseWithFallback(r))] : r \in Raw(CtxValues)}

\* the same, tabulated by the company and by whether its data could be read
ContextOutcomesOf ==
    [company \in CompanyUniverse, ok \in BOOLEAN |->
        ContextOutcomes(GetCompanyFocusedData(company, ok))]

\* create_plan, one iteration of the loop over found_companies
GroundContext ==
    /\ pc = "Context"
    /\ UNCHANGED AuxVars
    /\ \E ok1 \in BOOLEAN, ok2 \in BOOLEAN :
          LET company == found[idx]
              company_data == GetCompanyFocusedData(company, ok1)
          IN  \E o \in ContextOutcomesOf[company, ok1] :
              LET ents == ExtractEntitiesFromQuery(company, o.ctx)
                  rows == GetFocusedSections(company, ents, ok2)
              IN  /\ fetched' = company_data
                  /\ entities' = ents
                  /\ sections' = rows
                  /\ available' = available \o TagCompany(rows, company)
                  /\ llmCompanies' = <<>>
                  /\ lastParse' = o.parse
    /\ calls' = [calls EXCEPT !["context"] = @ + 1]
    /\ reads' = reads + 2
    /\ idx' = idx + 1
    /\ pc' = IF idx < Len(found) THEN "Context" ELSE "Available"
    /\ UNCHANGED <<all_companies, found, plan, cause, runQueries, SynthVars,
                   answer>>

\* if not all_available_sections: return None
MutNoSectionsAvailable(all_available_sections) == FALSE

NoSectionsAvailable(all_available_sections) == all_available_sections = <<>>

\* create_plan after the loop: the check of all_available_sections; the
\* loop's locals are not read again
CheckAvailable ==
    /\ pc = "Available"
    /\ UNCHANGED AuxVars
    /\ IF NoSectionsAvailable(available)
       THEN pc' = "Dispatch" /\ plan' = PlanFailure("NoContentAvailable")
            /\ cause' = "NoContentAvailable"
       ELSE pc' = "Guide" /\ UNCHANGED <<plan, cause>>
    /\ fetched' = <<>>
    /\ entities' = NoEntities
    /\ sections' = <<>>
    /\ UNCHANGED <<all_companies, llmCompanies, found, idx, available,
                   lastParse, calls, reads, runQueries, SynthVars, answer>>

\* create_plan, step 3: the extraction guide
GenerateGuide ==
    /\ pc = "Guide"
    /\ UNCHANGED AuxVars
    /\ \E r \in Raw(GuideValues) :
          /\ plan' = LET guide == LlmGenerateExtractionGuide(r)
                     IN  IF guide.plan_type = "none"
                         THEN PlanFailure("PlanGenerationError") ELSE guide
          /\ lastParse' = Parsed("guide", ParseStrict(r))
    /\ cause' = IF plan'.plan_type = "none" THEN "PlanGenerationError" ELSE cause
    /\ calls' = [calls EXCEPT !["guide"] = @ + 1]
    /\ pc' = "Dispatch"
    /\ UNCHANGED <<PlannerLocals, reads, runQueries, SynthVars, answer>>

---------------------------------------------------------------------------
(* Neo4jQueryAgent.run after create_plan has returned                      *)

\* rows the graph store returns for the metadata queries of the model
MetaRows(q) ==
    IF q = "MATCH_COMPANIES" THEN GraphCompanies
    ELSE IF q = "MATCH_DOC_TYPES" THEN <<"10-K", "10-Q">>
    ELSE <<>>

\* MATCH (s:Section) WHERE id(s) IN $section_ids RETURN s.text, s.name
RetrievalRows(section_ids) ==
    LET hit == SelectSeq(GraphSections, LAMBDA s : s.id \in section_ids)
    IN  [i \in 1..Len(hit) |->
            [has_text |-> hit[i].has_text, len |-> hit[i].len,
             filename |-> hit[i].name]]

RetrievalQuery(section_ids) ==
    [query |-> "MATCH_SECTION_TEXT", section_ids |-> section_ids]

MetadataQuery(q) == [query |-> q, section_ids |-> {}]

\* if not plan: return the could-not-plan message
RunNoPlan ==
    /\ pc = "Dispatch"
    /\ UNCHANGED AuxVars
    /\ plan.plan_type = "none"
    /\ pc' = "Failed"
    /\ answer' = CouldNotPlan
    /\ UNCHANGED <<PlannerLocals, plan, cause, lastParse, calls, reads,
                   runQueries, SynthVars>>

\* plan_type == "metadata"
RunMetadata ==
    /\ pc = "Dispatch"
    /\ UNCHANGED AuxVars
    /\ plan.plan_type = "metadata"
    /\ IF plan.cypher_query \in {NoneVal, ""}
       THEN /\ pc' = "Failed"
            /\ answer' = MetadataNoQuery
            /\ UNCHANGED <<runQueries, results>>
       ELSE \E ok \in BOOLEAN :
            /\ runQueries' = Append(runQueries, MetadataQuery(plan.cypher_query))
            /\ results' = RunCypherQuery(ok, MetaRows(plan.cypher_query))
            /\ answer' = JsonDumps(results')
            /\ pc' = "Done"
    /\ UNCHANGED <<PlannerLocals, plan, cause, lastParse, calls, reads, docIdx,
                   chunkIdx, chunkOut, batch, reduceCall>>

\* if not results: the no-extractable-text message
MutRetrievalEmpty(rows) == FALSE

RetrievalEmpty(rows) == rows = <<>>

\* _guided_map_reduce: the ceiling on the total characters of the documents
MAX_CONTEXT_CHARACTERS == 180000

\* sum(len(doc.get('text') or '') for doc in documents)
RECURSIVE TotalChars(_)
TotalChars(documents) ==
    IF documents = <<>> THEN 0
    ELSE (IF Head(documents).has_text THEN Head(documents).len ELSE 0)
         + TotalChars(Tail(documents))

MutMappedDocuments(documents) ==
    IF TotalChars(documents) > MAX_CONTEXT_CHARACTERS THEN documents ELSE <<>>

\* _guided_map_reduce: the documents handed to map_summarize_sections, above
\* the ceiling and at most the ceiling
MappedDocuments(documents) ==
    IF TotalChars(documents) > MAX_CONTEXT_CHARACTERS THEN documents
    ELSE documents

\* plan_type == "content_extraction", up to the retrieval of the section
\* texts; the planner's locals are gone once the run goes on
RunContent ==
    /\ pc = "Dispatch"
    /\ UNCHANGED AuxVars
    /\ plan.plan_type = "content_extraction"
    /\ IF plan.sections_to_retrieve = {}
       THEN /\ pc' = "Failed"
            /\ answer' = NoSectionsSpecified
            /\ UNCHANGED <<PlannerLocals, runQueries, results, docIdx,
                           chunkIdx>>
       ELSE \E ok \in BOOLEAN :
            /\ runQueries' =
                   Append(runQueries, RetrievalQuery(plan.sections_to_retrieve))
            /\ results' =
                   RunCypherQuery(ok, RetrievalRows(plan.sections_to_retrieve))
            /\ IF RetrievalEmpty(results')
               THEN /\ pc' = "Failed"
                    /\ answer' = NoExtractableText
                    /\ UNCHANGED <<PlannerLocals, docIdx, chunkIdx>>
               ELSE /\ pc' = IF MappedDocuments(results') = <<>>
                             THEN "Reduce" ELSE "Map"
                    /\ docIdx' = 1
                    /\ chunkIdx' = 1
                    /\ all_companies' = <<>>
                    /\ llmCompanies' = <<>>
                    /\ found' = <<>>
                    /\ idx' = 0
                    /\ fetched' = <<>>
                    /\ entities' = NoEntities
                    /\ sections' = <<>>
                    /\ available' = <<>>
                    /\ UNCHANGED answer
    /\ UNCHANGED <<plan, cause, lastParse, calls, reads, chunkOut, batch,
                   reduceCall>>

---------------------------------------------------------------------------
(* map_summarize_sections and reduce_and_synthesize_answer                 *)

MAX_CHARS_PER_CHUNK == 180000

\* _split_text_into_chunks, on character counts: one chunk when the text
\* fits, else chunks of at most the ceiling
SplitTextIntoChunks(len) ==
    IF len <= MAX_CHARS_PER_CHUNK THEN <<len>>
    ELSE LET n == (len + MAX_CHARS_PER_CHUNK - 1) \div MAX_CHARS_PER_CHUNK
         IN  [j \in 1..n |->
                 IF j < n THEN MAX_CHARS_PER_CHUNK
                 ELSE len - (n - 1) * MAX_CHARS_PER_CHUNK]

\* [item['task'] for item in extraction_checklist if item['type'] == kind]
TasksOfType(extraction_checklist, kind) ==
    LET items == SelectSeq(extraction_checklist,
                           LAMBDA item : item.type = kind)
    IN  [i \in 1..Len(items) |-> items[i].task]

NoOutput == [kind |-> "empty", tasks |-> <<>>]

MutExtractTableData(ok, chunk, tasks) ==
    IF ok THEN [kind |-> "llm_json", chunk |-> chunk, tasks |-> tasks]
    ELSE [kind |-> "extraction_error", chunk |-> chunk, tasks |-> tasks]

\* _extract_table_data: "" without tasks, the LLM's JSON, or every task
\* mapped to "Extraction Error" when the call raises
ExtractTableData(ok, chunk, tasks) ==
    IF tasks = <<>> THEN NoOutput
    ELSE IF ok THEN [kind |-> "llm_json", chunk |-> chunk, tasks |-> tasks]
    ELSE [kind |-> "extraction_error", chunk |-> chunk, tasks |-> tasks]

\* _summarize_narrative: "" without tasks, the LLM's prose, or the fixed
\* could-not-summarize sentence when the call raises
SummarizeNarrative(ok, chunk, tasks) ==
    IF tasks = <<>> THEN NoOutput
    ELSE IF ok THEN [kind |-> "llm_text", chunk |-> chunk, tasks |-> tasks]
    ELSE [kind |-> "summary_error", chunk |-> chunk, tasks |-> tasks]

MutChunkOutput(table_results_json, narrative_summary) ==
    (IF narrative_summary.kind # "empty"
     THEN <<[label |-> "Narrative Summary", body |-> narrative_summary]>>
     ELSE <<>>)
    \o (IF table_results_json.kind # "empty"
        THEN <<[label |-> "Extracted Data", body |-> table_results_json]>>
        ELSE <<>>)

\* chunk_output: the labelled blocks of the non-empty specialist results
ChunkOutput(table_results_json, narrative_summary) ==
    (IF table_results_json.kind # "empty"
     THEN <<[label |-> "Extracted Data", body |-> table_results_json]>>
     ELSE <<>>)
    \o (IF narrative_summary.kind # "empty"
        THEN <<[label |-> "Narrative Summary", body |-> narrative_summary]>>
        ELSE <<>>)

MutDocSummary(final_doc_summary, filename) ==
    [text |-> final_doc_summary, filename |-> NoneVal, is_summary |-> TRUE]

\* the entry appended to batch_summaries for a document
DocSummary(final_doc_summary, filename) ==
    [text |-> final_doc_summary, filename |-> filename, is_summary |-> TRUE]

\* one pass of the chunk loop; after a document's last chunk its summary is
\* appended to batch_summaries and the document loop moves on
MapChunk ==
    /\ pc = "Map"
    /\ UNCHANGED AuxVars
    /\ results[docIdx].has_text
    /\ LET doc == results[docIdx]
           chunks == SplitTextIntoChunks(doc.len)
           table_tasks ==
               TasksOfType(plan.extraction_checklist, "table_extraction")
           narrative_tasks ==
               TasksOfType(plan.extraction_checklist, "narrative_summary")
       IN  \E tok \in BOOLEAN, nok \in BOOLEAN :
           LET out == ChunkOutput(
                          ExtractTableData(tok, chunkIdx, table_tasks),
                          SummarizeNarrative(nok, chunkIdx, narrative_tasks))
               all_chunk_results == Append(chunkOut, out)
           IN  /\ calls' = [calls EXCEPT
                    !["table"] = @ + (IF table_tasks = <<>> THEN 0 ELSE 1),
                    !["narrative"] =
                        @ + (IF narrative_tasks = <<>> THEN 0 ELSE 1)]
               /\ IF chunkIdx < Len(chunks)
                  THEN /\ chunkIdx' = chunkIdx + 1
                       /\ chunkOut' = all_chunk_results
                       /\ UNCHANGED <<pc, docIdx, batch>>
                  ELSE /\ batch' = Append(batch,
                              DocSummary(all_chunk_results, doc.filename))
                       /\ chunkOut' = <<>>
                       /\ chunkIdx' = 1
                       /\ docIdx' = docIdx + 1
                       /\ pc' = IF docIdx < Len(results) THEN "Map"
                                ELSE "Reduce"
    /\ UNCHANGED <<PlannerLocals, plan, cause, lastParse, reads, runQueries,
                   results, reduceCall, answer>>

\* doc['text'] is None: len(None) raises in _split_text_into_chunks, the
\* exception leaves map_summarize_sections and is caught by run
MapRaises ==
    /\ pc = "Map"
    /\ UNCHANGED AuxVars
    /\ ~results[docIdx].has_text
    /\ pc' = "Failed"
    /\ answer' = UnexpectedError
    /\ UNCHANGED <<PlannerLocals, plan, cause, lastParse, calls, reads,
                   runQueries, SynthVars>>

\* the filenames in sorted order
NameOrder == <<"MD&A", "Risk Factors">>

\* sorted(list(set(r.get('filename') for r in results if r.get('filename'))))
MutSourceFilenames(rs) ==
    LET named == SelectSeq(rs, LAMBDA r : r.filename # NoneVal)
    IN  [i \in 1..Len(named) |-> named[i].filename]

SourceFilenames(rs) ==
    SelectSeq(NameOrder,
              LAMBDA n : \E i \in 1..Len(rs) :
                             rs[i].filename # NoneVal /\ rs[i].filename = n)

\* llm_answer + sources_section; the prompt asks the LLM to end its answer
\* with the disclaimer, the code does not add it
Report(rs, llm_answer) ==
    [kind |-> "report", rows |-> <<>>, sources |-> SourceFilenames(rs),
     disclaimer |-> llm_answer.disclaimer]

\* what the reduce LLM call may answer: prose that ends with the disclaimer
\* sentence or prose that does not
ReduceAnswers == {[disclaimer |-> d] : d \in BOOLEAN}

\* reduce_and_synthesize_answer; the LLM call is not guarded, so a provider
\* error leaves the function and is caught by run
Reduce ==
    /\ pc = "Reduce"
    /\ UNCHANGED AuxVars
    /\ IF batch = <<>>
       THEN /\ answer' = Message("no_information")
            /\ pc' = "Done"
            /\ UNCHANGED <<calls, reduceCall>>
       ELSE \E ok \in BOOLEAN, llm_answer \in ReduceAnswers :
            /\ calls' = [calls EXCEPT !["reduce"] = @ + 1]
            /\ reduceCall' = IF ok THEN "ok" ELSE "err"
            /\ IF ok
               THEN pc' = "Done" /\ answer' = Report(batch, llm_answer)
               ELSE pc' = "Failed" /\ answer' = UnexpectedError
    /\ UNCHANGED <<PlannerLocals, plan, cause, lastParse, reads, runQueries,
                   results, docIdx, chunkIdx, chunkOut, batch>>

Next ==
    \/ Classify
    \/ GroundCompanies
    \/ GroundContext
    \/ CheckAvailable
    \/ GenerateGuide
    \/ RunNoPlan
    \/ RunMetadata
    \/ RunContent
    \/ MapChunk
    \/ MapRaises
    \/ Reduce

Spec == Init /\ [][Next]_vars

---------------------------------------------------------------------------
(* reduce_and_synthesize_answer on its own: any list of results             *)

\* longest results list handed to the reduce step
MaxResults == 3

\* results as map_summarize_sections builds them, with a filename of the
\* graph or none
ReduceInputs ==
    SeqsUpTo({[text |-> <<>>, filename |-> f, is_summary |-> TRUE] :
                 f \in Range(NameOrder) \cup {NoneVal}}, MaxResults)

ReduceInit ==
    /\ CriticIdle
    /\ BuilderIdle
    /\ SplitIdle
    /\ GatewayIdle
    /\ pc = "Reduce"
    /\ batch \in ReduceInputs
    /\ all_companies = <<>>
    /\ llmCompanies = <<>>
    /\ found = <<>>
    /\ idx = 0
    /\ fetched = <<>>
    /\ entities = NoEntities
    /\ sections = <<>>
    /\ available = <<>>
    /\ plan = NoPlan
    /\ cause = "none"
    /\ lastParse = Parsed("none", PyNone)
    /\ calls = [k \in CallKinds |-> 0]
    /\ reads = 0
    /\ runQueries = <<>>
    /\ results = <<>>
    /\ docIdx = 0
    /\ chunkIdx = 0
    /\ chunkOut = <<>>
    /\ reduceCall = "none"
    /\ answer = NoAnswer

ReduceNext == Reduce

SpecReduce == ReduceInit /\ [][ReduceNext]_vars

---------------------------------------------------------------------------
(* The functions that run does not call, each on its own                   *)

\* the variables of run other than pc
PipelineRest == <<PlannerLocals, plan, cause, lastParse, calls, reads,
                  runQueries, SynthVars, answer>>

\* run has not been entered
PipelineIdle ==
    /\ all_companies = <<>>
    /\ llmCompanies = <<>>
    /\ found = <<>>
    /\ idx = 0
    /\ fetched = <<>>
    /\ entities = NoEntities
    /\ sections = <<>>
    /\ available = <<>>
    /\ plan = NoPlan
    /\ cause = "none"
    /\ lastParse = Parsed("none", PyNone)
    /\ calls = [k \in CallKinds |-> 0]
    /\ reads = 0
    /\ runQueries = <<>>
    /\ results = <<>>
    /\ docIdx = 0
    /\ chunkIdx = 0
    /\ chunkOut = <<>>
    /\ batch = <<>>
    /\ reduceCall = "none"
    /\ answer = NoAnswer

---------------------------------------------------------------------------
(* answer_critic.evaluate_and_suggest_improvements                         *)

\* what the LLM may put under "decision": the two words asked for, other
\* spellings, another word, an empty string, nothing, a value that is no
\* string
CriticDecisions ==
    {"ACCEPT", "REFINE", "accept", "Refine", "MAYBE", "", NoneVal, "<number>"}

\* what the LLM may put under "feedback"
CriticFeedbacks == {"one sentence", "", NoneVal, "<number>"}

CriticValues ==
    {[type |-> "dict", decision |-> d, feedback |-> f] :
        d \in CriticDecisions, f \in CriticFeedbacks}
        \cup {NonObject, EmptyValue}

\* the fallback of the except branch
AcceptByDefault ==
    [type |-> "dict", decision |-> "ACCEPT",
     feedback |-> "Critic failed to evaluate, accepting by default."]

\* json.loads(evaluation_str) returned as it is; the fallback when the call
\* or the parse raised
EvaluateAndSuggestImprovements(r) ==
    LET evaluation == ParseStrict(r)
    IN  IF evaluation.type = "error" THEN AcceptByDefault ELSE evaluation

CriticInit ==
    /\ PipelineIdle
    /\ BuilderIdle
    /\ SplitIdle
    /\ GatewayIdle
    /\ pc = "Critic"
    /\ evaluation_str \in Raw(CriticValues)
    /\ verdict = NoVerdict

Evaluate ==
    /\ pc = "Critic"
    /\ verdict' = EvaluateAndSuggestImprovements(evaluation_str)
    /\ pc' = "CriticDone"
    /\ UNCHANGED <<PipelineRest, evaluation_str, search_plan, index_hits, built,
                   encodes, searches, text, chunk_size, split_chunks,
                   GatewayVars>>

CriticNext == Evaluate

SpecCritic == CriticInit /\ [][CriticNext]_vars

---------------------------------------------------------------------------
(* cypher_builder.CypherQueryBuilder.build_query                           *)

\* most calls of build_query on one plan
MaxBuilds == 2

\* plans: a strategy (or none), a concept (a text, an empty one or none) and
\* the filters
SearchPlans ==
    {[search_type |-> st, concept |-> c, companies |-> cs, years |-> ys,
      quarters |-> qs, sections |-> ss] :
        st \in {"Hybrid", "Comprehensive", "Direct", NoneVal},
        c \in {"stress testing", "", NoneVal},
        cs \in {<<>>, <<"BAC">>}, ys \in {<<>>, <<2025>>},
        qs \in {<<>>, <<"Q1">>}, ss \in {<<>>, <<1>>}}

\* number of sections of the largest vector index
IndexSize == 25

\* the sections the vector index may hold, nearest to the concept first: none
\* (or no index loaded), one, two, or more than any k requested by the builder
IndexHits == {<<>>, <<1>>, <<1, 3>>, [i \in 1..IndexSize |-> i]}

\* VectorDB.search: the k nearest section ids, fewer when the index is smaller
VectorSearch(ranking, k) ==
    SubSeq(ranking, 1, IF k < Len(ranking) THEN k ELSE Len(ranking))

\* self.vector_db.search(query_embedding, k=20)
HYBRID_K == 20

\* the empty string
NoQuery ==
    [kind |-> "none", section_ids |-> <<>>, companies |-> <<>>,
     years |-> <<>>, quarters |-> <<>>, sections |-> <<>>]

\* _build_direct_query: one WHERE part per non-empty filter
BuildDirectQuery(a_plan) ==
    [kind |-> "direct", section_ids |-> <<>>, companies |-> a_plan.companies,
     years |-> a_plan.years, quarters |-> a_plan.quarters,
     sections |-> a_plan.sections]

\* _build_comprehensive_query
BuildComprehensiveQuery(a_plan) ==
    IF a_plan.companies = <<>> THEN NoQuery
    ELSE [kind |-> "comprehensive", section_ids |-> <<>>,
          companies |-> a_plan.companies, years |-> <<>>, quarters |-> <<>>,
          sections |-> <<>>]

\* if not semantic_query
ConceptGiven(a_plan) == a_plan.concept \notin {NoneVal, ""}

\* _build_hybrid_query
MutBuildHybridQuery(a_plan, ranking) ==
    LET section_ids == VectorSearch(ranking, HYBRID_K)
    IN  IF ~ConceptGiven(a_plan) THEN BuildDirectQuery(a_plan)
        ELSE IF section_ids = <<>> THEN NoQuery
        ELSE [kind |-> "hybrid", section_ids |-> section_ids,
              companies |-> a_plan.companies, years |-> a_plan.years,
              quarters |-> a_plan.quarters, sections |-> <<>>]

BuildHybridQuery(a_plan, ranking) ==
    LET section_ids == VectorSearch(ranking, HYBRID_K)
    IN  IF ~ConceptGiven(a_plan) THEN NoQuery
        ELSE IF section_ids = <<>> THEN NoQuery
        ELSE [kind |-> "hybrid", section_ids |-> section_ids,
              companies |-> a_plan.companies, years |-> a_plan.years,
              quarters |-> a_plan.quarters, sections |-> <<>>]

\* calls of model.encode and of vector_db.search one build_query makes
VectorCalls(a_plan) ==
    IF a_plan.search_type = "Hybrid" /\ ConceptGiven(a_plan) THEN 1 ELSE 0

\* build_query
BuildQueryResult(a_plan, ranking) ==
    IF a_plan.search_type = "Hybrid" THEN BuildHybridQuery(a_plan, ranking)
    ELSE IF a_plan.search_type = "Comprehensive"
    THEN BuildComprehensiveQuery(a_plan)
    ELSE BuildDirectQuery(a_plan)

\* the path Company -> Year -> Quarter of an indexed section: the one of
\* GraphSections for its ids, BAC 2025 Q1 for every other section
SectionPath(id) ==
    IF \E n \in 1..Len(GraphSections) : GraphSections[n].id = id
    THEN LET s == GraphSections[CHOOSE n \in 1..Len(GraphSections) :
                                   GraphSections[n].id = id]
         IN  [company |-> s.company, year |-> s.year, quarter |-> s.quarter]
    ELSE [company |-> "BAC", year |-> 2025, quarter |-> "Q1"]

\* a filter of the hybrid query: no WHERE part when the list is empty, else
\* the EXISTS pattern with the IN test
FilterPasses(values, v) == values = <<>> \/ v \in Range(values)

\* the rows the graph store returns for a built hybrid query: the sections
\* among its ids that pass its EXISTS filters; the query has neither ORDER BY
\* nor LIMIT
RunHybridQuery(q) ==
    SelectSeq(q.section_ids,
              LAMBDA id : /\ FilterPasses(q.companies, SectionPath(id).company)
                          /\ FilterPasses(q.years, SectionPath(id).year)
                          /\ FilterPasses(q.quarters, SectionPath(id).quarter))

BuilderInit ==
    /\ PipelineIdle
    /\ CriticIdle
    /\ SplitIdle
    /\ GatewayIdle
    /\ pc = "Build"
    /\ search_plan \in SearchPlans
    /\ index_hits \in IndexHits
    /\ built = <<>>
    /\ encodes = 0
    /\ searches = 0

BuildQuery ==
    /\ pc = "Build"
    /\ Len(built) < MaxBuilds
    /\ built' = Append(built, BuildQueryResult(search_plan, index_hits))
    /\ encodes' = encodes + VectorCalls(search_plan)
    /\ searches' = searches + VectorCalls(search_plan)
    /\ UNCHANGED <<pc, PipelineRest, evaluation_str, verdict, search_plan,
                   index_hits, text, chunk_size, split_chunks, GatewayVars>>

BuilderNext == BuildQuery

SpecBuilder == BuilderInit /\ [][BuilderNext]_vars

---------------------------------------------------------------------------
(* answer_synthesizer._split_text_into_chunks on character strings         *)

\* the characters of the texts: a letter, a blank and a hyphen
Alphabet == {"a", " ", "-"}

\* longest text
MaxTextLen == 5

\* largest ceiling; map_summarize_sections always passes the default,
\* MAX_CHARS_PER_CHUNK, of which the ceilings here are the small-scale image
MaxChunkSize == 3

Texts == SeqsUpTo(Alphabet, MaxTextLen)

\* the character at position i, "$" outside of the text
Ch(t, i) == IF i \in 1..Len(t) THEN t[i] ELSE "$"

IsLetter(c) == c = "a"

IsSpace(c) == c = " "

\* a slice of the text, by its first and last position
Span(i, j) == [first |-> i, last |-> j]

SpanLen(s) == s.last - s.first + 1

\* s.strip() == ''
IsBlank(t, s) == \A i \in s.first..s.last : IsSpace(t[i])

\* last position of the run of character c that starts at p
RunEnd(t, p, c) ==
    CHOOSE e \in (p - 1)..Len(t) :
        (\A i \in p..e : t[i] = c) /\ Ch(t, e + 1) # c

\* wordsep_re, em-dash between words: (?<=[\w!"'&.,?]) -{2,} (?=\w)
EmDashAt(t, p) ==
    /\ IsLetter(Ch(t, p - 1))
    /\ RunEnd(t, p, "-") >= p + 1
    /\ IsLetter(Ch(t, RunEnd(t, p, "-") + 1))

\* wordsep_re, hyphenated word: a hyphen at h that follows two letters, or
\* letter-hyphen-letter, and is followed by letter, optional hyphen, letter
HyphenBreak(t, h) ==
    /\ Ch(t, h) = "-"
    /\ \/ IsLetter(Ch(t, h - 2)) /\ IsLetter(Ch(t, h - 1))
       \/ /\ IsLetter(Ch(t, h - 3))
          /\ Ch(t, h - 2) = "-"
          /\ IsLetter(Ch(t, h - 1))
    /\ IsLetter(Ch(t, h + 1))
    /\ \/ IsLetter(Ch(t, h + 2))
       \/ Ch(t, h + 2) = "-" /\ IsLetter(Ch(t, h + 3))

\* wordsep_re, end of word after position e: whitespace, the end of the
\* text, or an em-dash
WordStop(t, e) ==
    \/ e = Len(t)
    \/ IsSpace(Ch(t, e + 1))
    \/ EmDashAt(t, e + 1)

\* wordsep_re, the word that starts at p: the shortest run of non-blank
\* characters that is followed by a hyphen break or a word end
WordEnd(t, p) ==
    LET stops(e) == HyphenBreak(t, e + 1) \/ WordStop(t, e)
        e == CHOOSE e \in p..Len(t) :
                 stops(e) /\ \A d \in p..(e - 1) : ~stops(d)
    IN  IF HyphenBreak(t, e + 1) THEN e + 1 ELSE e

\* last position of the piece wordsep_re matches at p
ChunkEnd(t, p) ==
    IF IsSpace(t[p]) THEN RunEnd(t, p, " ")
    ELSE IF EmDashAt(t, p) THEN RunEnd(t, p, "-")
    ELSE WordEnd(t, p)

RECURSIVE SplitFrom(_, _)
SplitFrom(t, p) ==
    IF p > Len(t) THEN <<>>
    ELSE <<Span(p, ChunkEnd(t, p))>> \o SplitFrom(t, ChunkEnd(t, p) + 1)

\* TextWrapper._split: the text cut into blanks and words
Split(t) == SplitFrom(t, 1)

\* total length of the first n pieces of cs
TotalLen(cs, n) == IF n = 0 THEN 0 ELSE cs[n].last - cs[1].first + 1

\* TextWrapper._handle_long_word with break_long_words: how many characters
\* of the piece go on the current line; after a hyphen that lies within the
\* space left and follows a non-hyphen, else all the space left
BreakAt(t, piece, space_left) ==
    LET hy == {i \in 0..(space_left - 1) : t[piece.first + i] = "-"}
        hyphen == IF hy = {} THEN -1
                  ELSE CHOOSE m \in hy : \A x \in hy : x <= m
    IN  IF /\ hyphen > 0
           /\ \E i \in 0..(hyphen - 1) : t[piece.first + i] # "-"
        THEN hyphen + 1
        ELSE space_left

\* TextWrapper._wrap_chunks with drop_whitespace: one line per pass; a blank
\* piece at the start of a line but the first and at the end of a line is
\* dropped, a piece longer than the width is broken
RECURSIVE WrapChunks(_, _, _, _)
WrapChunks(t, cs, width, lines) ==
    IF cs = <<>> THEN lines
    ELSE LET c1 == IF lines # <<>> /\ IsBlank(t, cs[1]) THEN Tail(cs) ELSE cs
             n == CHOOSE n \in 0..Len(c1) :
                      /\ TotalLen(c1, n) <= width
                      /\ n < Len(c1) => TotalLen(c1, n + 1) > width
             fit == SubSeq(c1, 1, n)
             rest == SubSeq(c1, n + 1, Len(c1))
             long == rest # <<>> /\ SpanLen(rest[1]) > width
             end == IF long
                    THEN BreakAt(t, rest[1], width - TotalLen(c1, n))
                    ELSE 0
             cur_line ==
                 IF long
                 THEN Append(fit, Span(rest[1].first, rest[1].first + end - 1))
                 ELSE fit
             left ==
                 IF long
                 THEN <<Span(rest[1].first + end, rest[1].last)>> \o Tail(rest)
                 ELSE rest
             kept == IF cur_line # <<>> /\ IsBlank(t, cur_line[Len(cur_line)])
                     THEN SubSeq(cur_line, 1, Len(cur_line) - 1)
                     ELSE cur_line
         IN  WrapChunks(t, left, width,
                        IF kept = <<>> THEN lines
                        ELSE Append(lines,
                                    Span(kept[1].first, kept[Len(kept)].last)))

\* textwrap.wrap(text, width, break_long_words=True,
\* replace_whitespace=False): every line is a slice of the text
TextwrapWrap(t, width) == WrapChunks(t, Split(t), width, <<>>)

MutSplitTextIntoChunks(t, size) == TextwrapWrap(t, size)

\* _split_text_into_chunks, on the text itself
SplitTextIntoChunksOf(t, size) ==
    IF Len(t) <= size THEN <<Span(1, Len(t))>> ELSE TextwrapWrap(t, size)

SplitInit ==
    /\ PipelineIdle
    /\ CriticIdle
    /\ BuilderIdle
    /\ GatewayIdle
    /\ pc = "Split"
    /\ text \in Texts
    /\ chunk_size \in 1..MaxChunkSize
    /\ split_chunks = <<>>

SplitText ==
    /\ pc = "Split"
    /\ split_chunks' = SplitTextIntoChunksOf(text, chunk_size)
    /\ pc' = "SplitDone"
    /\ UNCHANGED <<PipelineRest, evaluation_str, verdict, search_plan,
                   index_hits, built, encodes, searches, text, chunk_size,
                   GatewayVars>>

SplitNext == SplitText

SpecSplit == SplitInit /\ [][SplitNext]_vars

---------------------------------------------------------------------------
(* unified_llm_client.UnifiedLLMClient._invoke                             *)

\* longest message list a caller passes
MaxMessages == 2

\* most calls made with the same message list
MaxCalls == 2

Providers == {"openai", "anthropic"}

Roles == {"system", "user", "assistant"}

\* a message dict; its content is the caller's text followed by so many
\* copies of the JSON-only instruction
Msg(role, shims) == [role |-> role, shims |-> shims]

\* {"role": "user", "content": "You MUST respond with a single, valid JSON
\* object and nothing else."}
ShimMessage == [role |-> "user", shims |-> 1]

\* the message lists of the callers: no instruction in them
CallerMessages ==
    {[i \in 1..Len(rs) |-> Msg(rs[i], 0)] : rs \in SeqsUpTo(Roles, MaxMessages)}

\* response_format: none, or {"type": "json_object"}
ResponseFormats == {NoneVal, "json_object"}

\* the anthropic branch of _invoke.  msgs is the caller's list.  The slice
\* messages[1:] is a new list of the same dicts, so += on the last dict's
\* content changes the caller's dict, and append changes the caller's list
\* only when no slice was taken.  The result is the caller's list afterwards
\* and the request sent.
InvokeAnthropic(msgs, format) ==
    LET has_system == msgs # <<>> /\ msgs[1].role = "system"
        system_message == IF has_system THEN <<msgs[1]>> ELSE <<>>
        sliced == IF has_system THEN Tail(msgs) ELSE msgs
        bump(l) == [l EXCEPT ![Len(l)].shims = @ + 1]
    IN  IF format # "json_object"
        THEN [caller |-> msgs,
              request |-> [system |-> system_message, messages |-> sliced,
                           response_format |-> NoneVal]]
        ELSE IF sliced # <<>> /\ sliced[Len(sliced)].role = "user"
        THEN [caller |-> bump(msgs),
              request |-> [system |-> system_message,
                           messages |-> bump(sliced),
                           response_format |-> NoneVal]]
        ELSE [caller |-> IF has_system THEN msgs
                         ELSE Append(msgs, ShimMessage),
              request |-> [system |-> system_message,
                           messages |-> Append(sliced, ShimMessage),
                           response_format |-> NoneVal]]

\* the openai branch: the arguments are passed on
InvokeOpenai(msgs, format) ==
    [caller |-> msgs,
     request |-> [system |-> <<>>, messages |-> msgs,
                  response_format |-> format]]

GatewayInit ==
    /\ PipelineIdle
    /\ CriticIdle
    /\ BuilderIdle
    /\ SplitIdle
    /\ pc = "Gateway"
    /\ provider \in Providers
    /\ response_format \in ResponseFormats
    /\ messages \in CallerMessages
    /\ requests = <<>>

\* one call of chat.completions.create with the caller's list
Invoke ==
    /\ pc = "Gateway"
    /\ Len(requests) < MaxCalls
    /\ LET out == IF provider = "openai"
                  THEN InvokeOpenai(messages, response_format)
                  ELSE InvokeAnthropic(messages, response_format)
       IN  /\ messages' = out.caller
           /\ requests' = Append(requests, out.request)
    /\ UNCHANGED <<pc, PipelineRest, evaluation_str, verdict, search_plan,
                   index_hits, built, encodes, searches, text, chunk_size,
                   split_chunks, provider, response_format>>

GatewayNext == Invoke

SpecGateway == GatewayInit /\ [][GatewayNext]_vars

---------------------------------------------------------------------------
(* Properties                                                              *)

\* the planner has grounded at least one company and is still in its loop
\* or at the check that follows it
JustGrounded == pc \in {"Context", "Available"} /\ idx > 1

CreatePlanReturned == pc \in {"Dispatch", "Failed", "Done"}

\* C1: the years, quarters and document types returned by the per-company
\* context grounding are each a subset of the values that occur in the
\* company's (year, quarter, document type) rows fetched from the graph.
C1_GroundedFiltersAreReal ==
    (JustGrounded /\ fetched # <<>>) =>
        /\ Range(entities.years) \subseteq AvailableYears(fetched)
        /\ Range(entities.quarters) \subseteq AvailableQuarters(fetched)
        /\ Range(entities.document_types) \subseteq AvailableDocTypes(fetched)

\* C2: the grounded company list holds only members of the live company
\* list; names outside it are dropped and planning goes on with the rest;
\* create_plan returns no plan exactly when the grounded list is empty.
C2_CompaniesGrounded ==
    /\ Range(found) \subseteq Range(all_companies)
    /\ lastParse.step = "company" =>
          /\ \A c \in Range(llmCompanies) \cap Range(all_companies) :
                 c \in Range(found)
          /\ found # <<>> => pc = "Context" /\ cause = "none"
          /\ found = <<>> =>
                /\ pc \in {"Dispatch", "Failed"}
                /\ plan.plan_type = "none"

C2_Witness ==
    /\ lastParse.step = "company"
    /\ pc = "Context"
    /\ \E i \in 1..Len(llmCompanies) : llmCompanies[i] \notin Range(all_companies)

\* C3: every section enumerated for a company matches all non-empty
\* grounded filters: year, quarter and document type.
C3_EnumerationAppliesFilters ==
    JustGrounded =>
        \A i \in 1..Len(sections) :
            /\ entities.years # <<>> =>
                   sections[i].year \in Range(entities.years)
            /\ entities.quarters # <<>> =>
                   sections[i].quarter \in Range(entities.quarters)
            /\ entities.document_types # <<>> =>
                   sections[i].doc_type \in Range(entities.document_types)

EnumeratedIds == {available[i].section_id : i \in 1..Len(available)}

\* C4: the sections_to_retrieve of every content plan create_plan returns
\* are among the section ids enumerated for the query.
C4_PlanSectionsEnumerated ==
    (pc = "Dispatch" /\ plan.plan_type = "content_extraction") =>
        plan.sections_to_retrieve \subseteq EnumeratedIds

SpecialistTypes == {"table_extraction", "narrative_summary"}

\* C5: every checklist item of a returned content plan is an object with a
\* task and a type, and the type is table_extraction or narrative_summary.
C5_ChecklistItemsTyped ==
    plan.plan_type = "content_extraction" =>
        \A i \in 1..Len(plan.extraction_checklist) :
            /\ ItemWellFormed(plan.extraction_checklist[i])
            /\ plan.extraction_checklist[i].type \in SpecialistTypes

Malformed == lastParse.got \in {"unparseable", "nonobject"}

PlanningFailed ==
    /\ pc \in {"Dispatch", "Failed"}
    /\ plan.plan_type = "none"
    /\ pc = "Failed" => answer = CouldNotPlan

\* C6 as stated: after a planning step whose LLM output cannot be parsed,
\* create_plan has returned no plan and run answers with the could-not-plan
\* message; planning does not go on with a default value.
C6_MalformedStepFailsPlanning ==
    lastParse.got = "unparseable" => PlanningFailed

\* C6 as amended: malformed output at company grounding or at the extraction
\* guide ends planning with no plan and the could-not-plan message;
\* unparseable classification output falls back to content planning;
\* malformed context-grounding output yields empty filters and planning goes
\* on; only a classification output that is non-empty JSON but no object
\* raises out of create_plan, and run answers it with the unexpected-error
\* message.
C6_MalformedStepOutcomes ==
    /\ (Malformed /\ lastParse.step \in {"company", "guide"}) => PlanningFailed
    /\ (Malformed /\ lastParse.step = "classify"
            /\ lastParse.got = "unparseable") => pc = "Company"
    /\ (Malformed /\ lastParse.step = "context") =>
          /\ JustGrounded =>
                /\ entities.years = <<>>
                /\ entities.quarters = <<>>
                /\ entities.document_types = <<>>
          /\ pc \in {"Context", "Available", "Guide", "Dispatch", "Failed"}
          /\ pc \in {"Dispatch", "Failed"} => cause = "NoContentAvailable"
    /\ (lastParse.step = "classify" /\ lastParse.got = "nonobject") =>
          pc = "Failed" /\ answer = UnexpectedError
    /\ (answer = UnexpectedError /\ runQueries = <<>>) =>
          (lastParse.step = "classify" /\ lastParse.got = "nonobject")

C6_Witness ==
    /\ lastParse = [step |-> "context", got |-> "unparseable"]
    /\ pc = "Guide"

\* C7 as stated: the result of a failed create_plan tells its cause apart
\* from the other causes.
C7_FailureCausesDistinguishable ==
    (CreatePlanReturned /\ cause # "none") =>
        \A c \in FailureCauses \ {cause} : plan # PlanFailure(c)

\* C7 as amended: create_plan returns no plan when no company is identified
\* and when companies are identified but no section is enumerated for any
\* of them; in both cases no extraction-guide call is issued and run answers
\* with the could-not-plan message; the result is the same None for every
\* cause.
C7_FailuresWithoutGuideCall ==
    /\ cause \in {"NoEntityFound", "NoContentAvailable"} =>
          /\ PlanningFailed
          /\ calls["guide"] = 0
          /\ plan = NoPlan
    /\ cause = "NoEntityFound" <=>
          (lastParse.step = "company" /\ found = <<>>)
    /\ pc = "Dispatch" =>
          (cause = "NoContentAvailable" <=> (found # <<>> /\ available = <<>>))
    /\ cause = "PlanGenerationError" => plan = NoPlan /\ calls["guide"] = 1

C7_Witness ==
    /\ cause = "NoContentAvailable"
    /\ pc = "Failed"
    /\ found # <<>>

OnlyClassified == calls = [k \in CallKinds |-> IF k = "classify" THEN 1 ELSE 0]

\* C8 as stated: for a metadata plan create_plan makes no grounding call, and
\* run executes the plan's query exactly once and returns the rows, in order,
\* as the answer, with no further LLM call.
C8_MetadataRunsQueryOnce ==
    plan.plan_type = "metadata" =>
        /\ reads = 0
        /\ OnlyClassified
        /\ pc \in {"Done", "Failed"} =>
              /\ runQueries = <<MetadataQuery(plan.cypher_query)>>
              /\ answer.kind = "json_rows"
              /\ answer.rows = results

\* C8 as amended: the same, for a metadata plan that carries a query; a
\* metadata plan whose query is missing or empty executes nothing and is
\* answered with the failed-to-construct-the-query message.
C8_MetadataRunsQueryOnceIfAny ==
    plan.plan_type = "metadata" =>
        /\ reads = 0
        /\ OnlyClassified
        /\ pc \in {"Dispatch", "Done", "Failed"}
        /\ pc = "Done" =>
              /\ plan.cypher_query \in MetaQueries
              /\ runQueries = <<MetadataQuery(plan.cypher_query)>>
              /\ answer.kind = "json_rows"
              /\ answer.rows = results
              /\ results \in {MetaRows(plan.cypher_query), <<>>}
        /\ pc = "Failed" =>
              /\ plan.cypher_query \notin MetaQueries
              /\ runQueries = <<>>
              /\ answer = MetadataNoQuery

C8_Witness ==
    /\ plan.plan_type = "metadata"
    /\ pc = "Done"
    /\ answer.rows = GraphCompanies

SynthesisCalls == calls["table"] + calls["narrative"] + calls["reduce"]

\* C9: a map or reduce call happens only for a content plan with section
\* ids whose retrieval returned rows; with no section ids run stops before
\* any retrieval query; with no rows it stops with the no-extractable-text
\* message after that one query and one planning pass.
C9_SynthesisNeedsRetrievedRows ==
    /\ (pc \in {"Map", "Reduce"} \/ SynthesisCalls > 0) =>
          /\ plan.plan_type = "content_extraction"
          /\ plan.sections_to_retrieve # {}
          /\ results # <<>>
          /\ runQueries = <<RetrievalQuery(plan.sections_to_retrieve)>>
    /\ answer = NoSectionsSpecified =>
          /\ pc = "Failed"
          /\ plan.sections_to_retrieve = {}
          /\ runQueries = <<>>
          /\ SynthesisCalls = 0
    /\ answer = NoExtractableText =>
          /\ pc = "Failed"
          /\ results = <<>>
          /\ Len(runQueries) = 1
          /\ calls["classify"] = 1 /\ calls["guide"] = 1
          /\ SynthesisCalls = 0

C9_Witness ==
    /\ answer = NoExtractableText
    /\ plan.sections_to_retrieve # {}

\* the outputs of the map calls made so far
MapBodies ==
    {b.body.kind :
        b \in UNION {Range(c) : c \in Range(chunkOut) \cup
                        UNION {Range(d.text) : d \in Range(batch)}}}

SomeCallSucceeded ==
    \/ MapBodies \cap {"llm_json", "llm_text"} # {}
    \/ reduceCall = "ok"

\* C10: once retrieval has returned sections (each with a text), the run
\* ends in Failed if and only if every LLM call of the map/reduce chain
\* failed.
C10_FailedIffAllCallsFail ==
    (/\ pc \in {"Done", "Failed"}
     /\ plan.plan_type = "content_extraction"
     /\ results # <<>>
     /\ \A i \in 1..Len(results) : results[i].has_text) =>
        (pc = "Failed" <=> ~SomeCallSucceeded)

\* the map step has been entered: a content plan whose retrieval returned rows
MapStarted == plan.plan_type = "content_extraction" /\ results # <<>>

\* C11: a failure while extracting from one chunk or one document (an LLM
\* error in a specialist, or a retrieved document without text) never aborts
\* the map step: the synthesis input has one summary per retrieved document
\* with one output per chunk, and a failed table extraction appears in it as
\* the "Extraction Error" object over all table tasks.
C11_MapStepNeverAborts ==
    (MapStarted /\ pc \in {"Reduce", "Done", "Failed"}) =>
        /\ Len(batch) = Len(results)
        /\ \A i \in 1..Len(batch) :
              /\ batch[i].filename = results[i].filename
              /\ Len(batch[i].text) = Len(SplitTextIntoChunks(results[i].len))
              /\ \A j \in 1..Len(batch[i].text) :
                    \A k \in 1..Len(batch[i].text[j]) :
                        LET body == batch[i].text[j][k].body
                        IN  body.kind = "extraction_error" =>
                                body.tasks = TasksOfType(plan.extraction_checklist,
                                                         "table_extraction")

\* the non-empty filenames of a list of results
Filenames(rs) == {rs[i].filename : i \in 1..Len(rs)} \ {NoneVal}

\* position of a filename in sorted order
NamePos(n) == CHOOSE i \in 1..Len(NameOrder) : NameOrder[i] = n

StrictlySorted(names) ==
    \A i \in 1..Len(names) : \A j \in 1..Len(names) :
        i < j => NamePos(names[i]) < NamePos(names[j])

\* C12 as stated: every string the reduce step returns ends with the
\* disclaimer sentence followed by a Sources list holding each contributing
\* filename exactly once, in sorted order.
C12_EndsWithDisclaimerAndSources ==
    (pc = "Done" /\ answer.kind \in {"report", "no_information"}) =>
        /\ answer.disclaimer
        /\ Range(answer.sources) = Filenames(batch)
        /\ StrictlySorted(answer.sources)

\* C12 as amended: for a non-empty results list whose LLM call returns, the
\* string is the LLM's answer followed by a Sources list that holds each
\* non-empty filename exactly once, in sorted order, and so depends only on
\* the set of filenames; the disclaimer is there only if the LLM wrote it;
\* for an empty results list the fixed no-information sentence is returned,
\* with neither disclaimer nor Sources list, and no LLM call is made.
C12_SourcesSortedDeduplicated ==
    /\ answer.kind = "report" =>
          /\ batch # <<>>
          /\ reduceCall = "ok"
          /\ Range(answer.sources) = Filenames(batch)
          /\ StrictlySorted(answer.sources)
    /\ (pc = "Done" /\ batch = <<>> /\ plan.plan_type # "metadata") =>
          /\ answer = Message("no_information")
          /\ calls["reduce"] = 0
    /\ (pc = "Done" /\ batch # <<>>) => answer.kind = "report"

C12_Witness ==
    /\ answer.kind = "report"
    /\ Len(batch) = 3
    /\ batch[1].filename = "Risk Factors"
    /\ batch[2].filename = "MD&A"
    /\ batch[3].filename = "Risk Factors"

\* a verdict as the critic's contract describes it
ValidVerdict(v) ==
    /\ v.type = "dict"
    /\ v.decision \in {"ACCEPT", "REFINE"}
    /\ v.feedback \in {"one sentence", "",
                        "Critic failed to evaluate, accepting by default."}

\* C13: evaluate_and_suggest_improvements always returns a verdict whose
\* decision is exactly ACCEPT or REFINE, with a feedback string; on any
\* evaluation failure (provider error, unparseable output, parseable output
\* without a valid decision) the verdict is ACCEPT.
C13_VerdictAlwaysValid ==
    pc = "CriticDone" =>
        /\ ValidVerdict(verdict)
        /\ (\/ evaluation_str.shape # "json"
            \/ ~ValidVerdict(evaluation_str.value)) =>
                verdict.decision = "ACCEPT"

HybridWithoutConcept ==
    search_plan.search_type = "Hybrid" /\ ~ConceptGiven(search_plan)

\* C15: for a Hybrid plan whose concept is missing or empty, every call of
\* build_query returns no query, whatever the other filters are; nothing is
\* embedded, the vector index is not searched, and the Direct and
\* Comprehensive builders are not used.
C15_HybridWithoutConceptFails ==
    HybridWithoutConcept =>
        /\ \A i \in 1..Len(built) : built[i] = NoQuery
        /\ encodes = 0
        /\ searches = 0

C15_Witness ==
    /\ HybridWithoutConcept
    /\ search_plan.companies # <<>>
    /\ Len(built) = MaxBuilds

\* C16: a Hybrid plan with a concept for which the vector index returns no
\* candidate is a successful retrieval with zero results: what build_query
\* returns is not the failure it returns for a missing or empty concept.
C16_ZeroCandidatesNotAFailure ==
    (/\ search_plan.search_type = "Hybrid"
     /\ ConceptGiven(search_plan)
     /\ index_hits = <<>>) =>
        \A i \in 1..Len(built) : built[i] # NoQuery

\* the kinds of answer that explain a failure to the user
Explanations ==
    {"could_not_plan", "metadata_without_query", "no_sections_specified",
     "no_extractable_text", "unexpected_error"}

\* the graph store failed on the query run issued: the rows run got are not
\* the rows the store holds for it
QueryFailed ==
    /\ runQueries # <<>>
    /\ results # (IF plan.plan_type = "metadata"
                  THEN MetaRows(plan.cypher_query)
                  ELSE RetrievalRows(plan.sections_to_retrieve))

\* a stage of the run failed: no plan, a failed query, an exception in the
\* map step or a failed reduce call
StageFailed ==
    \/ plan.plan_type = "none"
    \/ QueryFailed
    \/ reduceCall = "err"
    \/ \E i \in 1..Len(results) :
           plan.plan_type = "content_extraction" /\ ~results[i].has_text

\* C17: a run in which a stage failed (planning, retrieval, synthesis) ends
\* in Failed with an explanation for the user, never in Done with an answer.
C17_StageFailureEndsFailed ==
    (pc \in {"Done", "Failed"} /\ StageFailed) =>
        /\ pc = "Failed"
        /\ answer.kind \in Explanations

\* statements that only read the graph
ReadStatements == {"MATCH_COMPANIES", "MATCH_DOC_TYPES", "MATCH_SECTION_TEXT"}

\* C18: every statement run issues to the graph store is a read, whatever
\* the LLM returned.
C18_RunIssuesOnlyReads ==
    \A i \in 1..Len(runQueries) : runQueries[i].query \in ReadStatements

\* the words of the text: the maximal runs of non-blank characters
Words ==
    {w \in {Span(i, j) : i \in 1..Len(text), j \in 1..Len(text)} :
        /\ w.first <= w.last
        /\ \A i \in w.first..w.last : ~IsSpace(text[i])
        /\ ~(Ch(text, w.first - 1) \in Alphabet \ {" "})
        /\ ~(Ch(text, w.last + 1) \in Alphabet \ {" "})}

\* the word lies within one chunk
Whole(w) ==
    \E k \in 1..Len(split_chunks) :
        split_chunks[k].first <= w.first /\ w.last <= split_chunks[k].last

HasHyphen(w) == \E i \in w.first..w.last : text[i] = "-"

ChunksWithinCeiling ==
    \A k \in 1..Len(split_chunks) : SpanLen(split_chunks[k]) <= chunk_size

ShortTextOneChunk ==
    Len(text) <= chunk_size => split_chunks = <<Span(1, Len(text))>>

RECURSIVE TotalChunks(_)
TotalChunks(documents) ==
    IF documents = <<>> THEN 0
    ELSE Len(SplitTextIntoChunks(Head(documents).len))
         + TotalChunks(Tail(documents))

\* the specialist of the given kind ran once on every chunk, if the
\* checklist has a task for it
SpecialistRanOnEveryChunk(kind, call) ==
    calls[call] = IF TasksOfType(plan.extraction_checklist, kind) = <<>>
                  THEN 0 ELSE TotalChunks(results)

\* C20: whatever the total character count of the retrieved documents, above
\* the ceiling or not, the reduce step gets one summary per retrieved
\* document, with one specialist output per chunk, and both specialists ran
\* on every chunk.
C20_MapStepOnBothBranches ==
    (plan.plan_type = "content_extraction" /\ pc \in {"Reduce", "Done"}) =>
        /\ Len(batch) = Len(results)
        /\ \A i \in 1..Len(batch) :
               /\ batch[i].is_summary
               /\ batch[i].filename = results[i].filename
               /\ Len(batch[i].text) = Len(SplitTextIntoChunks(results[i].len))
        /\ SpecialistRanOnEveryChunk("table_extraction", "table")
        /\ SpecialistRanOnEveryChunk("narrative_summary", "narrative")

\* the map step has finished on documents whose total is at most the ceiling
C20_Witness ==
    /\ pc = "Reduce"
    /\ results # <<>>
    /\ TotalChars(results) <= MAX_CONTEXT_CHARACTERS
    /\ Len(batch) = Len(results)

\* the tasks of the plan's checklist items of the given type
TasksTyped(kind) ==
    {plan.extraction_checklist[i].task :
        i \in {n \in 1..Len(plan.extraction_checklist) :
                  plan.extraction_checklist[n].type = kind}}

\* the block comes from the given specialist, working on chunk j with tasks
\* of its own type only
BlockOf(b, j, label, kind, outcomes) ==
    /\ b.label = label
    /\ b.body.kind \in outcomes
    /\ b.body.chunk = j
    /\ b.body.tasks # <<>>
    /\ Range(b.body.tasks) \subseteq TasksTyped(kind)

TableBlock(b, j) ==
    BlockOf(b, j, "Extracted Data", "table_extraction",
            {"llm_json", "extraction_error"})

NarrativeBlock(b, j) ==
    BlockOf(b, j, "Narrative Summary", "narrative_summary",
            {"llm_text", "summary_error"})

\* the output of chunk j: at most one block of each specialist, each from
\* its specialist, the table block before the narrative block
LabelledInOrder(c, j) ==
    /\ Len(c) <= 2
    /\ \A k \in 1..Len(c) : TableBlock(c[k], j) \/ NarrativeBlock(c[k], j)
    /\ Len(c) = 2 => TableBlock(c[1], j) /\ NarrativeBlock(c[2], j)

\* C21: the table specialist gets only table_extraction tasks and the
\* narrative specialist only narrative_summary tasks; a chunk's output is the
\* labelled table result followed by the labelled narrative result; a
\* document's output holds the outputs of its chunks in chunk order.
C21_LabelledOutputsInChunkOrder ==
    plan.plan_type = "content_extraction" =>
        /\ \A j \in 1..Len(chunkOut) : LabelledInOrder(chunkOut[j], j)
        /\ \A i \in 1..Len(batch) :
               \A j \in 1..Len(batch[i].text) :
                   LabelledInOrder(batch[i].text[j], j)

\* a document of two chunks has been mapped with both specialists at work
C21_Witness ==
    /\ pc = "Reduce"
    /\ \E i \in 1..Len(batch) :
           /\ Len(batch[i].text) = 2
           /\ Len(batch[i].text[1]) = 2
           /\ Len(batch[i].text[2]) = 2

\* the chunk outputs produced so far, of finished and unfinished documents
ChunkOutputs ==
    Range(chunkOut) \cup UNION {Range(batch[i].text) : i \in 1..Len(batch)}

\* the tasks of one specialist call follow the order of the checklist
InChecklistOrder(tasks) ==
    \A m \in 1..Len(tasks) : \A n \in (m + 1)..Len(tasks) :
        \E a \in 1..Len(plan.extraction_checklist) :
            \E b \in (a + 1)..Len(plan.extraction_checklist) :
                /\ plan.extraction_checklist[a].task = tasks[m]
                /\ plan.extraction_checklist[b].task = tasks[n]

\* C22: the tasks handed to a specialist keep the order of the plan's
\* checklist, and every checklist item of the plan is handed to a specialist
\* for every chunk.
C22_ChecklistOrderAndItemsKept ==
    plan.plan_type = "content_extraction" =>
        \A c \in ChunkOutputs :
            /\ \A k \in 1..Len(c) : InChecklistOrder(c[k].body.tasks)
            /\ \A i \in 1..Len(plan.extraction_checklist) :
                   \E k \in 1..Len(c) :
                       plan.extraction_checklist[i].task
                           \in Range(c[k].body.tasks)

\* C23: a response that does not parse as JSON but has a JSON object
\* embedded in its text is recovered by extracting that object; here for the
\* critic, whose stage fails by accepting by default.
C23_EmbeddedJsonRecovered ==
    (pc = "CriticDone" /\ evaluation_str.shape = "embedded") =>
        verdict = evaluation_str.value

\* the plan has a company, year or quarter filter
GraphFiltered(a_plan) ==
    a_plan.companies # <<>> \/ a_plan.years # <<>> \/ a_plan.quarters # <<>>

\* the k of the widened search: queryNodes('section_embeddings', 50, ...)
WIDENED_K == 50

\* C24: the Hybrid strategy asks the vector index for 20 neighbours when the
\* plan has no company, year or quarter filter and for 50 when it has one:
\* the candidates of the built query are the 20, or the 50, nearest sections.
C24_HybridWidensWhenFiltered ==
    (search_plan.search_type = "Hybrid" /\ ConceptGiven(search_plan)) =>
        \A i \in 1..Len(built) :
            index_hits # <<>> =>
                built[i].section_ids =
                    VectorSearch(index_hits,
                                 IF GraphFiltered(search_plan)
                                 THEN WIDENED_K ELSE HYBRID_K)

\* the most sections a Hybrid retrieval may return: LIMIT 10
TOP_SURVIVORS == 10

\* C25: a Hybrid retrieval returns at most 10 sections, each a vector
\* candidate that satisfies every non-empty filter of the plan.
C25_HybridReturnsTopTen ==
    \A i \in 1..Len(built) :
        built[i].kind = "hybrid" =>
            LET rows == RunHybridQuery(built[i])
            IN  /\ Len(rows) <= TOP_SURVIVORS
                /\ \A n \in 1..Len(rows) :
                       /\ rows[n] \in Range(index_hits)
                       /\ FilterPasses(search_plan.companies,
                                       SectionPath(rows[n]).company)
                       /\ FilterPasses(search_plan.years,
                                       SectionPath(rows[n]).year)
                       /\ FilterPasses(search_plan.quarters,
                                       SectionPath(rows[n]).quarter)

\* the WHERE parts of the Direct query: one per non-empty filter
DirectWhereParts(q) ==
    {k \in {"companies", "years", "quarters", "sections"} : q[k] # <<>>}

\* C26: the planner's section-enumeration query has one predicate for each
\* non-empty filter among years, quarters and document types and none for
\* an empty one, as the Direct query has for companies, years, quarters and
\* section ids.
C26_OnePredicatePerNonEmptyFilter ==
    /\ JustGrounded =>
          /\ "years" \in WhereClauses(entities) <=> entities.years # <<>>
          /\ "quarters" \in WhereClauses(entities) <=> entities.quarters # <<>>
          /\ "doc_types" \in WhereClauses(entities) <=>
                 entities.document_types # <<>>
    /\ \A i \in 1..Len(built) :
          built[i].kind = "direct" =>
              \A k \in {"companies", "years", "quarters", "sections"} :
                  k \in DirectWhereParts(built[i]) <=> search_plan[k] # <<>>

\* number of chunks the map step has worked on so far
RECURSIVE ChunksIn(_)
ChunksIn(summaries) ==
    IF summaries = <<>> THEN 0
    ELSE Len(Head(summaries).text) + ChunksIn(Tail(summaries))

ChunksDone == Len(chunkOut) + ChunksIn(batch)

\* 1 if the checklist has a task of the given type, else 0
HasTasks(kind) == IF TasksTyped(kind) = {} THEN 0 ELSE 1

\* number of blocks with the given label in a chunk output
Blocks(c, label) == Cardinality({k \in 1..Len(c) : c[k].label = label})

\* C27: for every chunk the map step works on, the table specialist is
\* called exactly once if the checklist has a table_extraction task and not
\* at all otherwise, and likewise the narrative specialist; a specialist
\* without tasks contributes no labelled block; once the map step is through,
\* every chunk of every document has been worked on; the reduce step makes
\* one call for a non-empty synthesis input and none for an empty one.
C27_CallsDeterminedByInputs ==
    /\ plan.plan_type = "content_extraction" =>
          /\ calls["table"] = ChunksDone * HasTasks("table_extraction")
          /\ calls["narrative"] = ChunksDone * HasTasks("narrative_summary")
          /\ \A c \in ChunkOutputs :
                 /\ Blocks(c, "Extracted Data") <= HasTasks("table_extraction")
                 /\ Blocks(c, "Narrative Summary") <=
                        HasTasks("narrative_summary")
          /\ pc = "Reduce" => ChunksDone = TotalChunks(results)
    /\ calls["reduce"] = IF reduceCall = "none" THEN 0 ELSE 1
    /\ (pc = "Done" /\ answer.kind \in {"report", "no_information"}) =>
          (calls["reduce"] = 1 <=> batch # <<>>)

\* a two-chunk document was mapped with narrative tasks only, and reduced
C27_Witness ==
    /\ pc = "Done"
    /\ answer.kind = "report"
    /\ HasTasks("table_extraction") = 0
    /\ calls["narrative"] = 2
    /\ calls["reduce"] = 1

\* every specialist call made for the documents failed
AllSpecialistsFailed ==
    \A c \in ChunkOutputs :
        \A k \in 1..Len(c) :
            c[k].body.kind \in {"extraction_error", "summary_error"}

C29_CompaniesEnumeratedOnce ==
    pc = "Available" =>
        /\ \A i \in 1..Len(available) : \A j \in (i + 1)..Len(available) :
               <<available[i].company, available[i].section_id>> #
                   <<available[j].company, available[j].section_id>>
        /\ calls["context"] = Cardinality(Range(found))

\* number of copies of the JSON-only instruction in a request
RECURSIVE Shims(_)
Shims(msgs) ==
    IF msgs = <<>> THEN 0 ELSE Head(msgs).shims + Shims(Tail(msgs))

\* the provider has no JSON mode of its own and JSON mode is requested
ShimNeeded == provider = "anthropic" /\ response_format = "json_object"

\* C30: a call of the gateway leaves the caller's message list as it was, and
\* when JSON mode is requested on the provider without native JSON support
\* every request carries the JSON-only instruction exactly once.
C30_CallerMessagesUnchanged ==
    [][/\ messages' = messages
       /\ ShimNeeded =>
              \A i \in 1..Len(requests') :
                  Shims(requests'[i].system \o requests'[i].messages) = 1]_vars

====
